---- MODULE Spec2Model ----
(***************************************************************************)
(* Model of packages/core/src/wasm/items_manager.c: the packed item codec  *)
(* (make_item, get_item_size, get_item_offset), the window membership test *)
(* (is_item_in_window), the index scan (get_item_indices_in_window) and    *)
(* the two padding functions (get_top_padding, get_bottom_padding).        *)
(*                                                                         *)
(* Machine integers are scaled: C `int` is IntBits wide and `long long` is *)
(* 2 * IntBits wide (32 and 64 in the build).  Every shift, mask and       *)
(* conversion of the source is expressed in terms of IntBits, so the model *)
(* is the source with the word size as a parameter.                        *)
(***************************************************************************)
EXTENDS Integers, Sequences, FiniteSets, TLC

\* Width of `int` in the model; `long long` is twice as wide.
IntBits == 6

\* Largest number of items in an items array.
MaxItems == 3

RECURSIVE Pow2(_)
Pow2(n) == IF n = 0 THEN 1 ELSE 2 * Pow2(n - 1)

MinInt == -Pow2(IntBits - 1)
MaxInt == Pow2(IntBits - 1) - 1
Int32 == MinInt..MaxInt

\* Two's complement reduction of a mathematical integer to `bits` bits, signed.
Wrap(x, bits) ==
  LET m == x % Pow2(bits)
  IN  IF m >= Pow2(bits - 1) THEN m - Pow2(bits) ELSE m

\* Conversion to `int` (the implicit conversion of a long long return value).
ToInt(x) == Wrap(x, IntBits)

\* Conversion / arithmetic result in `long long`.
ToLongLong(x) == Wrap(x, 2 * IntBits)

\* The bit pattern of a long long, as a natural number below 2^(2*IntBits).
Bits(x) == x % Pow2(2 * IntBits)

RECURSIVE BitOr(_, _)
BitOr(a, b) ==
  IF a = 0 /\ b = 0 THEN 0
  ELSE (IF a % 2 = 1 \/ b % 2 = 1 THEN 1 ELSE 0) + 2 * BitOr(a \div 2, b \div 2)

RECURSIVE BitAnd(_, _)
BitAnd(a, b) ==
  IF a = 0 \/ b = 0 THEN 0
  ELSE (IF a % 2 = 1 /\ b % 2 = 1 THEN 1 ELSE 0) + 2 * BitAnd(a \div 2, b \div 2)

\* x << n on a long long: the bit pattern shifted, high bits dropped.  A negative
\* left operand is shifted as its bit pattern, which is what the 64-bit shift
\* instruction the build emits for `(long long) size << 32` does.
ShiftLeft(x, n) == ToLongLong(Bits(x) * Pow2(n))

\* x >> n on a long long: arithmetic shift, the sign bit is replicated.
ShiftRight(x, n) == (x - (x % Pow2(n))) \div Pow2(n)

\* The literal 0xffffffff: the low IntBits bits set.
OffsetMask == Pow2(IntBits) - 1

\* long long get_item_size(long long item) { return item >> 32; }
get_item_size(item) == ShiftRight(item, IntBits)

\* long long get_item_offset(long long item) { return item & 0xffffffff; }
get_item_offset_SignExtended(item) == ToInt(item)

get_item_offset(item) == BitAnd(Bits(item), OffsetMask)

\* return ((long long) size << 32) | (long long) offset;
\* (long long) offset sign-extends offset to the full width before the OR.
make_item(size, offset) ==
  ToLongLong(BitOr(Bits(ShiftLeft(size, IntBits)), Bits(offset)))

\* is_item_in_window: both sums are long long sums of the converted arguments;
\* they stay far inside the long long range, so they are the exact sums.
is_item_in_window_IntSums(item, cursor_offset, cursor_size, window_size) ==
  /\ get_item_offset(item) <= ToInt(cursor_offset + cursor_size + window_size)
  /\ ToInt(get_item_offset(item) + get_item_size(item)) >= ToInt(cursor_offset - window_size)

is_item_in_window_SizeOnly(item, cursor_offset, cursor_size, window_size) ==
  /\ get_item_offset(item) <= cursor_offset + cursor_size + window_size
  /\ get_item_size(item) >= cursor_offset - window_size

is_item_in_window_Strict(item, cursor_offset, cursor_size, window_size) ==
  /\ get_item_offset(item) < cursor_offset + cursor_size + window_size
  /\ get_item_offset(item) + get_item_size(item) > cursor_offset - window_size

is_item_in_window(item, cursor_offset, cursor_size, window_size) ==
  /\ get_item_offset(item) <= cursor_offset + cursor_size + window_size
  /\ get_item_offset(item) + get_item_size(item) >= cursor_offset - window_size

\* return get_item_offset(items[first_item_index]);  converted to the int result.
get_top_padding(its, first_item_index) ==
  ToInt(get_item_offset(its[first_item_index]))

\* get_bottom_padding: the long long expression, converted to the int result.
get_bottom_padding(its, total_items, last_item_index) ==
  LET last_item == its[total_items - 1]
      last_item_in_window == its[last_item_index]
  IN  ToInt(get_item_offset(last_item) + get_item_size(last_item)
            - get_item_offset(last_item_in_window)
            - get_item_size(last_item_in_window))

(***************************************************************************)
(* State.                                                                  *)
(***************************************************************************)
VARIABLES
  size_arg, offset_arg,   \* arguments of a make_item call
  item,                   \* the packed value make_item returned
  size_out, offset_out,   \* what get_item_size / get_item_offset returned
  cpc,                    \* position of the codec round trip
  items,                  \* the caller's items array, indexed from 0
  items_count,            \* the items_count argument of the scans
  cursor_offset,          \* per call: the cursor_offset argument
  cursor_size,            \* per call: the cursor_size argument
  window_size,            \* per call: the window_size argument
  pc,                     \* per call: "idle", "loop" or "done"
  i,                      \* per call: the loop variable
  result_count,           \* per call: the local result_count
  result,                 \* per call: the caller-supplied result buffer
  last_write,             \* per call: the slot of result written last
  ret,                    \* per call: the returned count
  ppc,                    \* which padding function returned last
  pad_total, pad_index,   \* arguments of that padding call
  pad_ret                 \* its int result

codec_vars == <<size_arg, offset_arg, item, size_out, offset_out, cpc>>
scan_vars == <<items_count, cursor_offset, cursor_size, window_size, pc, i,
               result_count, result, last_write, ret>>
pad_vars == <<ppc, pad_total, pad_index, pad_ret>>
vars == <<codec_vars, items, scan_vars, pad_vars>>

\* The calls of get_item_indices_in_window that may be in progress at once.
Procs == {1, 2}

\* Content of a result slot, and of last_write, before anything was stored.
Unwritten == MinInt - 1

\* Number of entries of an array indexed from 0.
Length(arr) == Cardinality(DOMAIN arr)

\* All arrays over `vals` of lo..MaxItems entries.
Arrays(vals, lo) == UNION {[0..(n - 1) -> vals] : n \in lo..MaxItems}

Max(a, b) == IF a >= b THEN a ELSE b

(***************************************************************************)
(* Inputs.  Pairs are <<size, offset>> arguments of make_item.             *)
(***************************************************************************)
ScanPairs ==
  {<<10, 0>>, <<10, 10>>, <<10, 20>>, <<0, 10>>, <<MaxInt, MaxInt>>, <<10, -1>>, <<-1, 10>>}
ScanItems == {make_item(sp[1], sp[2]) : sp \in ScanPairs}
ScanCursorOffsets == {MinInt, 9, 10, 11}
ScanCursorSizes == {-1, 10}
ScanWindowSizes == {-1, 0, MaxInt}

ConcPairs == {<<10, 0>>, <<0, 10>>, <<10, -1>>}
ConcItems == {make_item(sp[1], sp[2]) : sp \in ConcPairs}
ConcCursors == {<<10, 10, 0>>, <<11, 10, 0>>, <<MinInt, -1, 0>>}

PadPairs == ScanPairs
PadItems == {make_item(sp[1], sp[2]) : sp \in PadPairs}

(***************************************************************************)
(* Parts of the initial state.                                             *)
(***************************************************************************)
CodecIdle ==
  /\ size_arg = 0 /\ offset_arg = 0 /\ item = 0
  /\ size_out = 0 /\ offset_out = 0 /\ cpc = "none"

CallsIdle ==
  /\ pc = [p \in Procs |-> "idle"]
  /\ i = [p \in Procs |-> 0]
  /\ result_count = [p \in Procs |-> 0]
  /\ result = [p \in Procs |-> [k \in 0..(Max(items_count, 0) - 1) |-> Unwritten]]
  /\ last_write = [p \in Procs |-> Unwritten]
  /\ ret = [p \in Procs |-> 0]

PadIdle ==
  /\ ppc = "none" /\ pad_total = 0 /\ pad_index = 0 /\ pad_ret = 0

(***************************************************************************)
(* Codec round trip: make_item, then the two decoders.                     *)
(***************************************************************************)
CodecInit ==
  /\ size_arg \in Int32 /\ offset_arg \in Int32
  /\ item = 0 /\ size_out = 0 /\ offset_out = 0 /\ cpc = "args"
  /\ items = <<>> /\ items_count = 0
  /\ cursor_offset = [p \in Procs |-> 0]
  /\ cursor_size = [p \in Procs |-> 0]
  /\ window_size = [p \in Procs |-> 0]
  /\ CallsIdle /\ PadIdle

MakeItem ==
  /\ cpc = "args"
  /\ item' = make_item(size_arg, offset_arg)
  /\ cpc' = "made"
  /\ UNCHANGED <<size_arg, offset_arg, size_out, offset_out, items, scan_vars, pad_vars>>

GetItemSize ==
  /\ cpc = "made"
  /\ size_out' = get_item_size(item)
  /\ cpc' = "size"
  /\ UNCHANGED <<size_arg, offset_arg, item, offset_out, items, scan_vars, pad_vars>>

GetItemOffset ==
  /\ cpc = "made"
  /\ offset_out' = get_item_offset(item)
  /\ cpc' = "offset"
  /\ UNCHANGED <<size_arg, offset_arg, item, size_out, items, scan_vars, pad_vars>>

CodecNext == MakeItem \/ GetItemSize \/ GetItemOffset

SpecCodec == CodecInit /\ [][CodecNext]_vars

(***************************************************************************)
(* get_item_indices_in_window, one loop iteration per step.                *)
(***************************************************************************)
\* int result_count = 0; for (int i = 0; ...
Call(p) ==
  /\ pc[p] = "idle"
  /\ result_count' = [result_count EXCEPT ![p] = 0]
  /\ i' = [i EXCEPT ![p] = 0]
  /\ pc' = [pc EXCEPT ![p] = "loop"]
  /\ UNCHANGED <<codec_vars, items, items_count, cursor_offset, cursor_size,
                 window_size, result, last_write, ret, pad_vars>>

\* The slot `result[result_count++] = i` stores to: the count before the increment.
WriteSlot_PreIncrement(count) == count + 1

WriteSlot(count) == count

\* A store to buf[at]; a store outside the buffer does not change the buffer.
Store(buf, at, val) == IF at \in DOMAIN buf THEN [buf EXCEPT ![at] = val] ELSE buf

\* One iteration with result_count shared by all calls (static storage).
LoopStep_SharedCount(p) ==
  /\ pc[p] = "loop"
  /\ i[p] < items_count
  /\ IF is_item_in_window(items[i[p]], cursor_offset[p], cursor_size[p], window_size[p])
     THEN /\ result' = [result EXCEPT ![p] = Store(@, WriteSlot(result_count[p]), i[p])]
          /\ last_write' = [last_write EXCEPT ![p] = WriteSlot(result_count[p])]
          /\ result_count' = [q \in Procs |-> result_count[p] + 1]
     ELSE UNCHANGED <<result, last_write, result_count>>
  /\ i' = [i EXCEPT ![p] = @ + 1]
  /\ UNCHANGED <<codec_vars, items, items_count, cursor_offset, cursor_size,
                 window_size, pc, ret, pad_vars>>

\* if (is_item_in_window(items[i], ...)) { result[result_count++] = i; }  ++i
LoopStep(p) ==
  /\ pc[p] = "loop"
  /\ i[p] < items_count
  /\ IF is_item_in_window(items[i[p]], cursor_offset[p], cursor_size[p], window_size[p])
     THEN /\ result' = [result EXCEPT ![p] = Store(@, WriteSlot(result_count[p]), i[p])]
          /\ last_write' = [last_write EXCEPT ![p] = WriteSlot(result_count[p])]
          /\ result_count' = [result_count EXCEPT ![p] = @ + 1]
     ELSE UNCHANGED <<result, last_write, result_count>>
  /\ i' = [i EXCEPT ![p] = @ + 1]
  /\ UNCHANGED <<codec_vars, items, items_count, cursor_offset, cursor_size,
                 window_size, pc, ret, pad_vars>>

\* i < items_count is false: return result_count;
LoopExit(p) ==
  /\ pc[p] = "loop"
  /\ ~(i[p] < items_count)
  /\ ret' = [ret EXCEPT ![p] = result_count[p]]
  /\ pc' = [pc EXCEPT ![p] = "done"]
  /\ UNCHANGED <<codec_vars, items, items_count, cursor_offset, cursor_size,
                 window_size, i, result_count, result, last_write, pad_vars>>

\* A single call (call 1) over every input array and cursor.
Init ==
  /\ CodecIdle /\ PadIdle
  /\ items \in Arrays(ScanItems, 0)
  /\ items_count \in (IF Length(items) = 0 THEN {-1, 0} ELSE {Length(items)})
  /\ \E co \in ScanCursorOffsets, cs \in ScanCursorSizes, ws \in ScanWindowSizes :
       /\ cursor_offset = [p \in Procs |-> IF p = 1 THEN co ELSE 0]
       /\ cursor_size = [p \in Procs |-> IF p = 1 THEN cs ELSE 0]
       /\ window_size = [p \in Procs |-> IF p = 1 THEN ws ELSE 0]
  /\ CallsIdle

Next == Call(1) \/ LoopStep(1) \/ LoopExit(1)

Spec == Init /\ [][Next]_vars

\* Two calls over the same items array, each with its own cursor and buffer,
\* their steps interleaved in any order.
ConcInit ==
  /\ CodecIdle /\ PadIdle
  /\ items \in Arrays(ConcItems, 0)
  /\ items_count = Length(items)
  /\ \E c1 \in ConcCursors, c2 \in ConcCursors :
       /\ cursor_offset = [p \in Procs |-> IF p = 1 THEN c1[1] ELSE c2[1]]
       /\ cursor_size = [p \in Procs |-> IF p = 1 THEN c1[2] ELSE c2[2]]
       /\ window_size = [p \in Procs |-> IF p = 1 THEN c1[3] ELSE c2[3]]
  /\ CallsIdle

ConcNext == \E p \in Procs : Call(p) \/ LoopStep(p) \/ LoopExit(p)

SpecConc == ConcInit /\ [][ConcNext]_vars

(***************************************************************************)
(* The padding functions, called with valid indices.                       *)
(***************************************************************************)
PadInit ==
  /\ CodecIdle /\ PadIdle
  /\ items \in Arrays(PadItems, 1)
  /\ items_count = Length(items)
  /\ cursor_offset = [p \in Procs |-> 0]
  /\ cursor_size = [p \in Procs |-> 0]
  /\ window_size = [p \in Procs |-> 0]
  /\ CallsIdle

GetTopPadding ==
  \E first_item_index \in DOMAIN items :
    /\ pad_ret' = get_top_padding(items, first_item_index)
    /\ pad_index' = first_item_index
    /\ pad_total' = 0
    /\ ppc' = "top"
    /\ UNCHANGED <<codec_vars, items, scan_vars>>

GetBottomPadding ==
  \E total_items \in 1..Length(items) :
    \E last_item_index \in 0..(total_items - 1) :
      /\ pad_ret' = get_bottom_padding(items, total_items, last_item_index)
      /\ pad_index' = last_item_index
      /\ pad_total' = total_items
      /\ ppc' = "bottom"
      /\ UNCHANGED <<codec_vars, items, scan_vars>>

PadNext == GetTopPadding \/ GetBottomPadding

SpecPad == PadInit /\ [][PadNext]_vars

(***************************************************************************)
(* Properties.                                                             *)
(***************************************************************************)
\* The decoded fields of items[k].
OffsetOf(k) == get_item_offset(items[k])
SizeOf(k) == get_item_size(items[k])
EndOf(k) == OffsetOf(k) + SizeOf(k)

\* Upper and lower edge of the expanded window of call p, as exact integers.
UpperEdge(p) == cursor_offset[p] + cursor_size[p] + window_size[p]
LowerEdge(p) == cursor_offset[p] - window_size[p]

\* The indices whose item passes the window test of call p.
Matching(p) ==
  {k \in 0..(items_count - 1) : OffsetOf(k) <= UpperEdge(p) /\ EndOf(k) >= LowerEdge(p)}

\* The indices call p returned: result[0..ret).
Returned(p) == {result[p][k] : k \in 0..(ret[p] - 1)}

\* C1: when a call has returned, its count is the number of items passing the
\* window test, and result[0..count) holds exactly their indices, each once,
\* in strictly ascending order; the count is 0 when no item passes.
C1_ScanReturnsMatchingIndices ==
  pc[1] = "done" =>
    /\ ret[1] = Cardinality(Matching(1))
    /\ \A k \in 0..(ret[1] - 1) : k \in DOMAIN result[1] /\ result[1][k] \in Matching(1)
    /\ \A k \in 1..(ret[1] - 1) : result[1][k - 1] < result[1][k]
    /\ (Matching(1) = {} => ret[1] = 0)

C1_Witness ==
  /\ pc[1] = "done" /\ items_count = MaxItems
  /\ ret[1] = 2 /\ result[1][0] = 0 /\ result[1][1] = 2

OffsetsNonDecreasing ==
  \A k \in 1..(items_count - 1) : OffsetOf(k - 1) <= OffsetOf(k)

EndsNonDecreasing ==
  \A k \in 1..(items_count - 1) : EndOf(k - 1) <= EndOf(k)

Contiguous(S) ==
  \A a \in S, b \in S : \A k \in a..b : k \in S

\* C2 as stated: non-decreasing offsets alone make the returned indices a
\* contiguous run.
C2_Original_MonotoneOffsetsContiguous ==
  (pc[1] = "done" /\ OffsetsNonDecreasing) => Contiguous(Returned(1))

\* C2 as amended: when the offsets and the end positions offset + size are both
\* non-decreasing, the returned indices form a contiguous ascending run.
C2_MonotoneSpansContiguous ==
  (pc[1] = "done" /\ OffsetsNonDecreasing /\ EndsNonDecreasing)
    => Contiguous(Returned(1))

C2_Witness ==
  /\ pc[1] = "done" /\ OffsetsNonDecreasing /\ EndsNonDecreasing
  /\ items_count = MaxItems
  /\ Returned(1) = {1, 2}

\* C3 as stated: the size decoded from make_item(size, offset) is size, for
\* every int size and offset, negative offsets included.
C3_SizeRoundTrip ==
  cpc = "size" => size_out = size_arg

\* C4: the offset decoded from make_item(size, offset) is offset when
\* offset >= 0 and offset + 2^IntBits when offset < 0; it is never negative.
C4_OffsetDecodesUnsigned ==
  cpc = "offset" =>
    /\ offset_out = (IF offset_arg >= 0 THEN offset_arg ELSE offset_arg + Pow2(IntBits))
    /\ offset_out >= 0

C4_Witness ==
  cpc = "offset" /\ offset_arg < 0 /\ size_arg > 0 /\ offset_out > MaxInt

\* The three size-10 items at offsets 0, 10, 20.
ExampleItems ==
  [k \in 0..2 |-> make_item(10, 10 * k)]

\* C5: with non-negative cursor_size and window_size, an item of non-negative
\* size whose offset is exactly the upper edge is returned and one whose offset
\* is one more is not; an item whose end is exactly the lower edge is returned
\* and one whose end is one less is not.  The example returns 0, 1, 2.
C5_InclusiveBoundaries ==
  pc[1] = "done" =>
    /\ (cursor_size[1] >= 0 /\ window_size[1] >= 0) =>
         \A k \in 0..(items_count - 1) :
           SizeOf(k) >= 0 =>
             /\ OffsetOf(k) = UpperEdge(1) => k \in Returned(1)
             /\ OffsetOf(k) = UpperEdge(1) + 1 => k \notin Returned(1)
             /\ EndOf(k) = LowerEdge(1) => k \in Returned(1)
             /\ EndOf(k) = LowerEdge(1) - 1 => k \notin Returned(1)
    /\ (/\ items = ExampleItems /\ items_count = 3
        /\ cursor_offset[1] = 10 /\ cursor_size[1] = 10 /\ window_size[1] = 0)
         => (ret[1] = 3 /\ \A k \in 0..2 : result[1][k] = k)

C5_Witness ==
  /\ pc[1] = "done" /\ items = ExampleItems /\ items_count = 3
  /\ cursor_offset[1] = 10 /\ cursor_size[1] = 10 /\ window_size[1] = 0
  /\ OffsetOf(2) = UpperEdge(1) /\ EndOf(0) = LowerEdge(1)
  /\ Returned(1) = {0, 1, 2}

\* The exact value of the bottom padding expression on the decoded fields.
BottomExact(total_items, last_item_index) ==
  EndOf(total_items - 1) - EndOf(last_item_index)

\* C6 as stated: get_bottom_padding returns the end of the last item minus the
\* end of the item at last_item_index, computed on the decoded fields.
C6_BottomPaddingExact ==
  ppc = "bottom" => pad_ret = BottomExact(pad_total, pad_index)

\* C7 as stated: get_top_padding returns exactly get_item_offset(items[i]).
C7_TopPaddingIsDecodedOffset ==
  ppc = "top" => pad_ret = OffsetOf(pad_index)

\* The values make_item returns for non-negative sizes and offsets.
NonNegativeItems == {make_item(sz, off) : sz \in 0..MaxInt, off \in 0..MaxInt}

\* Items built by make_item from non-negative sizes and offsets, offsets
\* non-decreasing, no item starting before the previous one ends.
WellFormed ==
  /\ \A k \in DOMAIN items : items[k] \in NonNegativeItems
  /\ \A k \in 1..(Length(items) - 1) :
       /\ OffsetOf(k - 1) <= OffsetOf(k)
       /\ OffsetOf(k) >= EndOf(k - 1)

\* C8 as stated: on well-formed input both padding results are non-negative.
C8_PaddingNonNegative ==
  WellFormed =>
    /\ ppc = "top" => pad_ret >= 0
    /\ (ppc = "bottom" /\ pad_total = Length(items)) => pad_ret >= 0

\* The count and buffer a call with p's arguments has after examining the
\* first n items when it runs alone.
RECURSIVE ScanAlone(_, _)
ScanAlone(p, n) ==
  IF n <= 0 THEN <<0, [k \in 0..(Max(items_count, 0) - 1) |-> Unwritten]>>
  ELSE LET prev == ScanAlone(p, n - 1)
       IN  IF is_item_in_window(items[n - 1], cursor_offset[p], cursor_size[p],
                                window_size[p])
           THEN <<prev[1] + 1, Store(prev[2], WriteSlot(prev[1]), n - 1)>>
           ELSE prev

\* A call that takes no step keeps all of its own state.
Undisturbed(p) ==
  (pc'[p] = pc[p] /\ i'[p] = i[p]) =>
    /\ result_count'[p] = result_count[p]
    /\ result'[p] = result[p]
    /\ last_write'[p] = last_write[p]
    /\ ret'[p] = ret[p]

\* C9: two interleaved calls over the same items, each with its own buffer:
\* after every step each call's count and buffer are what the call has at that
\* point when run alone, so each finishes with the count and contents of a lone
\* run; no step changes another call's state, and items is never modified.
C9_ConcurrentCallsIndependent ==
  /\ [](\A p \in Procs :
          /\ pc[p] # "idle" =>
               <<result_count[p], result[p]>> = ScanAlone(p, i[p])
          /\ pc[p] = "done" =>
               /\ i[p] = items_count
               /\ ret[p] = ScanAlone(p, items_count)[1]
               /\ result[p] = ScanAlone(p, items_count)[2])
  /\ [][items' = items /\ \A p \in Procs : Undisturbed(p)]_vars

C9_Witness ==
  /\ pc[1] = "loop" /\ pc[2] = "loop"
  /\ i[1] = 2 /\ i[2] = 1 /\ items_count = MaxItems
  /\ result_count[1] = 2 /\ result_count[2] = 0

\* C10: throughout the scan result_count <= i <= max(items_count, 0) (so
\* i <= items_count whenever an iteration runs), every store goes to a slot in
\* 0..items_count-1, slots at or above the count keep their content, the
\* returned count is in 0..max(items_count, 0), and the loop has run exactly
\* max(items_count, 0) iterations when the call returns.
C10_ScanBounds ==
  /\ result_count[1] <= i[1]
  /\ i[1] <= Max(items_count, 0)
  /\ (pc[1] = "loop" /\ i[1] > 0) => i[1] <= items_count
  /\ last_write[1] # Unwritten => last_write[1] \in 0..(items_count - 1)
  /\ \A k \in DOMAIN result[1] : k >= result_count[1] => result[1][k] = Unwritten
  /\ pc[1] = "done" =>
       /\ ret[1] \in 0..Max(items_count, 0)
       /\ i[1] = Max(items_count, 0)
       /\ \A k \in DOMAIN result[1] : k >= ret[1] => result[1][k] = Unwritten

C10_Witness ==
  /\ pc[1] = "done" /\ items_count = MaxItems
  /\ ret[1] = items_count /\ last_write[1] = items_count - 1

====
